---------------------------- MODULE Spec2Model ----------------------------
(***************************************************************************)
(* A model of gactions: the intent registry and dispatcher (Action), the   *)
(* response state machine (ActionResponse) and the request normalizer      *)
(* (ActionParser).                                                         *)
(*                                                                         *)
(* JavaScript values are records of one shape, so that any two of them can *)
(* be compared: t is the type tag, s the characters of a string (or the    *)
(* message of an Error), n the value of a number, keys/vals the named      *)
(* properties of an object in insertion order, items the elements of an    *)
(* array.  Strings are sequences of one-character strings, so that         *)
(* toUpperCase, substr, replace, template literals and JSON.stringify are  *)
(* computed character by character.                                        *)
(***************************************************************************)
EXTENDS Integers, Sequences, FiniteSets

VARIABLES
    _intents,   \* Action._intents: full intent name -> {action, handler}
    body,       \* the body given to runIntent, and that object once runIntent parsed it
    pc,         \* position of the request: "idle", "handler", "end"
    invoked,    \* the handler invocations made by runIntent, in order
    fired,      \* how many times runIntent has called its callback in this request
    last,       \* the last call runIntent made to its callback, and what led to it
    thrown,     \* TRUE when an exception escaped runIntent or its result callback
    calls,      \* the addIntent calls made so far, in order
    found,      \* what the last findIntent call passed to its callback
    resultCalls, \* how many times the handler has called its result callback
    args,       \* arguments of new ActionResponse(...) and of toObject(...)
    this,       \* the fields of the ActionResponse instance
    result,     \* what toObject returned
    rpc,        \* position of the response run: "new", "constructed", "done"
    parsed      \* the last ActionParser call: method, argument, outcome

vars == <<_intents, body, pc, invoked, fired, last, thrown, calls, found, resultCalls,
          args, this, result, rpc, parsed>>

---------------------------------------------------------------------------
(* JavaScript values *)

Val(t, s, n, keys, vals, items) ==
    [t |-> t, s |-> s, n |-> n, keys |-> keys, vals |-> vals, items |-> items]

Undefined == Val("undefined", <<>>, 0, <<>>, <<>>, <<>>)

Null == Val("null", <<>>, 0, <<>>, <<>>, <<>>)

Str(cs) == Val("string", cs, 0, <<>>, <<>>, <<>>)

Num(k) == Val("number", <<>>, k, <<>>, <<>>, <<>>)

Arr(xs) == Val("array", <<>>, 0, <<>>, <<>>, xs)

Obj(ks, vs) == Val("object", <<>>, 0, ks, vs, <<>>)

EmptyObject == Obj(<<>>, <<>>)

\* new Error(message)
Err(cs) == Val("error", cs, 0, <<>>, <<>>, <<>>)

\* The completion of an expression that threw (a TypeError in every case modelled).
TypeError == Val("throw", <<>>, 0, <<>>, <<>>, <<>>)

Threw(v) == v.t = "throw"

K_message == <<"m", "e", "s", "s", "a", "g", "e">>
K_ssml == <<"s", "s", "m", "l">>
TxtUndefined == <<"u", "n", "d", "e", "f", "i", "n", "e", "d">>
TxtNull == <<"n", "u", "l", "l">>
TxtObject == <<"[", "o", "b", "j", "e", "c", "t", " ", "O", "b", "j", "e", "c", "t", "]">>
TxtError == <<"E", "r", "r", "o", "r">>

\* ToBoolean
Truthy(v) ==
    CASE v.t \in {"undefined", "null"} -> FALSE
      [] v.t = "string" -> v.s # <<>>
      [] v.t = "number" -> v.n # 0
      [] OTHER -> TRUE

\* typeof v === 'object'
typeofObject(v) == v.t \in {"null", "array", "object", "error"}

\* v instanceof Array
instanceofArray(v) == v.t = "array"

\* a || b
Or(a, b) == IF Truthy(a) THEN a ELSE b

IndexOf(keys, key) ==
    IF \E i \in DOMAIN keys : keys[i] = key
    THEN CHOOSE i \in DOMAIN keys : keys[i] = key
    ELSE 0

\* v.key, for v other than undefined and null (reading a property of those throws)
Get(v, key) ==
    IF v.t = "error" /\ key = K_message
    THEN Str(v.s)
    ELSE LET i == IndexOf(v.keys, key)
         IN  IF i = 0 THEN Undefined ELSE v.vals[i]

\* v.key = val on an object, an array or an Error: an existing property keeps its place
Put(v, key, val) ==
    LET i == IndexOf(v.keys, key)
    IN  IF i = 0
        THEN [v EXCEPT !.keys = Append(v.keys, key), !.vals = Append(v.vals, val)]
        ELSE [v EXCEPT !.vals[i] = val]

Digit(d) ==
    CASE d = 0 -> "0" [] d = 1 -> "1" [] d = 2 -> "2" [] d = 3 -> "3" [] d = 4 -> "4"
      [] d = 5 -> "5" [] d = 6 -> "6" [] d = 7 -> "7" [] d = 8 -> "8" [] d = 9 -> "9"

RECURSIVE Digits(_)
\* the decimal text of a natural number
Digits(k) == IF k < 10 THEN <<Digit(k)>> ELSE Digits(k \div 10) \o <<Digit(k % 10)>>

RECURSIVE Join(_, _)
Join(texts, sep) ==
    IF texts = <<>> THEN <<>>
    ELSE IF Len(texts) = 1 THEN texts[1]
    ELSE texts[1] \o sep \o Join(Tail(texts), sep)

RECURSIVE ToString(_)
\* String(v), as a template literal or a property key computes it
ToString(v) ==
    CASE v.t = "undefined" -> TxtUndefined
      [] v.t = "null" -> TxtNull
      [] v.t = "string" -> v.s
      [] v.t = "number" -> Digits(v.n)
      [] v.t = "array" ->
            Join([i \in DOMAIN v.items |->
                    IF v.items[i].t \in {"undefined", "null"} THEN <<>>
                    ELSE ToString(v.items[i])], <<",">>)
      [] v.t = "error" -> TxtError \o <<":", " ">> \o v.s
      [] OTHER -> TxtObject

RECURSIVE Quote(_)
\* a string's characters inside JSON quotes
Quote(cs) ==
    IF cs = <<>> THEN <<>>
    ELSE (IF Head(cs) \in {"\"", "\\"} THEN <<"\\", Head(cs)>> ELSE <<Head(cs)>>)
         \o Quote(Tail(cs))

RECURSIVE JSONstringify(_)
\* JSON.stringify(v) for the values modelled; a property whose value is undefined
\* is left out of an object, and an Error has no enumerable property
JSONstringify(v) ==
    CASE v.t = "undefined" -> TxtUndefined
      [] v.t = "null" -> TxtNull
      [] v.t = "string" -> <<"\"">> \o Quote(v.s) \o <<"\"">>
      [] v.t = "number" -> Digits(v.n)
      [] v.t = "array" ->
            <<"[">> \o
            Join([i \in DOMAIN v.items |->
                    IF v.items[i].t = "undefined" THEN TxtNull
                    ELSE JSONstringify(v.items[i])], <<",">>)
            \o <<"]">>
      [] v.t = "error" -> <<"{", "}">>
      [] OTHER ->
            LET kept == SelectSeq([i \in DOMAIN v.keys |-> i],
                                  LAMBDA i : v.vals[i].t # "undefined")
            IN  <<"{">> \o
                Join([j \in DOMAIN kept |->
                        <<"\"">> \o Quote(v.keys[kept[j]]) \o <<"\"", ":">>
                        \o JSONstringify(v.vals[kept[j]])], <<",">>)
                \o <<"}">>

---------------------------------------------------------------------------
(* ActionResponse (src/lib/action_response.js) *)

NoIntentsMessage ==
    <<"N", "o", " ", "p", "o", "s", "s", "i", "b", "l", "e", " ", "i", "n", "t", "e", "n", "t",
      "s", " ", "g", "i", "v", "e", "n", " ", "f", "o", "r", " ", "c", "o", "n", "t", "i", "n",
      "u", "e", "d", " ", "r", "e", "s", "p", "o", "n", "s", "e">>

ErrorSpeechPrefix ==
    <<"T", "h", "e", "r", "e", " ", "w", "a", "s", " ", "a", "n", " ", "e", "r", "r", "o", "r",
      " ", "w", "i", "t", "h", " ", "y", "o", "u", "r", " ", "r", "e", "q", "u", "e", "s", "t",
      ",", " ">>

InvalidSpeechText ==
    <<"I", "n", "v", "a", "l", "i", "d", " ", "S", "p", "e", "e", "c", "h", " ", "R", "e", "s",
      "p", "o", "n", "s", "e", ":", " ", "M", "u", "s", "t", " ", "b", "e", " ", "S", "t", "r",
      "i", "n", "g", " ", "o", "r", " ", "O", "b", "j", "e", "c", "t", " ", "c", "o", "n", "t",
      "a", "i", "n", "i", "n", "g", " ", "\"", "s", "s", "m", "l", "\"", " ", "f", "i", "e",
      "l", "d", ".">>

NoResponseText ==
    <<"N", "o", " ", "r", "e", "s", "p", "o", "n", "s", "e", " ", "p", "r", "o", "v", "i", "d",
      "e", "d">>

\* a speech response object: {text_to_speech: value} or {ssml: value}
Speech(field, value) == [field |-> field, value |-> value]

formatSpeechResponse(message) ==
    IF typeofObject(message) /\ Truthy(message)
    THEN IF ~Truthy(Get(message, K_ssml))
         THEN Speech("text_to_speech", Str(InvalidSpeechText))
         ELSE Speech("ssml", Get(message, K_ssml))
    ELSE Speech("text_to_speech", Or(message, Str(NoResponseText)))

\* err is truthy wherever this is called, so err.message is read without throwing
formatSpeechResponseError(err) ==
    formatSpeechResponse(Str(ErrorSpeechPrefix \o ToString(Get(err, K_message))))

formatExpectedIntent(intentName) == [intent |-> intentName]

\* the constructor without its check of the intents of a continued response
constructor_NoCheck(err, message, prompts, intents) ==
    [error |-> err,
     message |-> message,
     prompts |-> IF instanceofArray(prompts) THEN prompts ELSE Null,
     intents |-> IF instanceofArray(intents) THEN intents ELSE Arr(<<>>),
     expectUserResponse |-> IF Truthy(err) THEN FALSE ELSE Truthy(prompts)]

\* new ActionResponse(err, message, prompts, intents): the instance's fields
constructor(err, message, prompts, intents) ==
    LET t == [error |-> err,
              message |-> message,
              prompts |-> IF instanceofArray(prompts) THEN prompts ELSE Null,
              intents |-> IF instanceofArray(intents) THEN intents ELSE Arr(<<>>),
              expectUserResponse |-> IF Truthy(err) THEN FALSE ELSE Truthy(prompts)]
    IN  IF t.expectUserResponse /\ Len(t.intents.items) = 0
        THEN [t EXCEPT !.error = Err(NoIntentsMessage)]
        ELSE t

\* What toObject produces.  final_response and expected_inputs are sequences: empty
\* when the field is absent from the object.  threw is TRUE when toObject raised
\* instead of returning.
Output(threw, token, expect, final, expected) ==
    [threw |-> threw,
     conversation_token |-> token,
     expect_user_response |-> expect,
     final_response |-> final,
     expected_inputs |-> expected]

Raised == Output(TRUE, <<>>, FALSE, <<>>, <<>>)

\* the default of toObject's argument without its `|| {}`
tokenObject_KeepNull(conversationToken) ==
    IF typeofObject(conversationToken) THEN conversationToken ELSE Obj(<<>>, <<>>)

\* the default applied to toObject's argument
tokenObject(conversationToken) ==
    IF typeofObject(conversationToken)
    THEN Or(conversationToken, Obj(<<>>, <<>>))
    ELSE Obj(<<>>, <<>>)

\* toObject testing expectUserResponse before the error
branch_FinalFirst(t) ==
    IF ~t.expectUserResponse THEN "final"
    ELSE IF Truthy(t.error) THEN "error"
    ELSE "continue"

\* which of its three branches toObject takes
branch(t) ==
    IF Truthy(t.error) THEN "error"
    ELSE IF ~t.expectUserResponse THEN "final"
    ELSE "continue"

toObject(t, conversationToken) ==
    LET token == JSONstringify(tokenObject(conversationToken))
    IN  CASE branch(t) = "error" ->
               Output(FALSE, token, FALSE,
                      <<[speech_response |-> formatSpeechResponseError(t.error)]>>, <<>>)
          [] branch(t) = "final" ->
               Output(FALSE, token, FALSE,
                      <<[speech_response |-> formatSpeechResponse(t.message)]>>, <<>>)
          [] OTHER ->
               \* this.prompts is null when prompts was truthy and not an array:
               \* this.prompts.map raises a TypeError
               IF t.prompts.t = "null"
               THEN Raised
               ELSE Output(FALSE, token, TRUE, <<>>,
                      <<[input_prompt |->
                           [initial_prompts |-> <<formatSpeechResponse(t.message)>>,
                            no_input_prompts |->
                               [i \in DOMAIN t.prompts.items |->
                                   formatSpeechResponse(t.prompts.items[i])]],
                         possible_intents |->
                               [i \in DOMAIN t.intents.items |->
                                   formatExpectedIntent(t.intents.items[i])]]>>)

---------------------------------------------------------------------------
(* ActionParser (src/lib/action_response.js, second class of the file) *)

K_type == <<"t", "y", "p", "e">>

K_conversation_type ==
    <<"c", "o", "n", "v", "e", "r", "s", "a", "t", "i", "o", "n", "_", "t", "y", "p", "e">>

K_name == <<"n", "a", "m", "e">>

K_text_value == <<"t", "e", "x", "t", "_", "v", "a", "l", "u", "e">>

K_raw_text == <<"r", "a", "w", "_", "t", "e", "x", "t">>

K_location_value == <<"l", "o", "c", "a", "t", "i", "o", "n", "_", "v", "a", "l", "u", "e">>

K_value == <<"v", "a", "l", "u", "e">>

K_location == <<"l", "o", "c", "a", "t", "i", "o", "n">>

K_trigger_query == <<"t", "r", "i", "g", "g", "e", "r", "_", "q", "u", "e", "r", "y">>

K_intent == <<"i", "n", "t", "e", "n", "t">>

K_raw_inputs == <<"r", "a", "w", "_", "i", "n", "p", "u", "t", "s">>

K_arguments == <<"a", "r", "g", "u", "m", "e", "n", "t", "s">>

K_query == <<"q", "u", "e", "r", "y">>

TYPE_UNSPECIFIED ==
    <<"T", "Y", "P", "E", "_", "U", "N", "S", "P", "E", "C", "I", "F", "I", "E", "D">>

TYPE_NEW == <<"N", "E", "W">>

TYPE_ACTIVE == <<"A", "C", "T", "I", "V", "E">>

TYPE_EXPIRED == <<"E", "X", "P", "I", "R", "E", "D">>

TYPE_ARCHIVED == <<"A", "R", "C", "H", "I", "V", "E", "D">>

conversationTypes == <<TYPE_UNSPECIFIED, TYPE_NEW, TYPE_ACTIVE, TYPE_EXPIRED, TYPE_ARCHIVED>>

parseObject(value) ==
    LET v == Or(value, EmptyObject)
    IN  IF typeofObject(v) THEN v ELSE EmptyObject

parseArray(value) ==
    LET v == Or(value, Arr(<<>>))
    IN  IF instanceofArray(v) THEN v ELSE Arr(<<>>)

parseDevice(device) == parseObject(device)

parseUser(user) == parseObject(user)

\* parseObject hands back its argument itself, not a copy, when the argument is an
\* object: what the parser then writes to it is written to the caller's object
SameObject(value) == Truthy(value) /\ typeofObject(value)

\* this.conversationTypes[index]: the element whose property key is String(index)
\* (the array's own length and inherited properties are not modelled)
conversationTypeAt(index) ==
    IF \E k \in 0..4 : ToString(index) = Digits(k)
    THEN Str(conversationTypes[(CHOOSE k \in 0..4 : ToString(index) = Digits(k)) + 1])
    ELSE Undefined

parseConversation(conversation) ==
    LET c == parseObject(conversation)
    IN  Put(c, K_type,
            Or(conversationTypeAt(Get(c, K_conversation_type)),
               Str(conversationTypes[1])))

\* the caller's conversation value once parseConversation has returned
conversationAfter(conversation) ==
    IF SameObject(conversation) THEN parseConversation(conversation) ELSE conversation

RECURSIVE replaceApostrophes(_)
\* cs.replace(/ ' /gi, '\'')
replaceApostrophes(cs) ==
    IF cs = <<>> THEN <<>>
    ELSE IF Len(cs) >= 3 /\ cs[1] = " " /\ cs[2] = "'" /\ cs[3] = " "
    THEN <<"'">> \o replaceApostrophes(SubSeq(cs, 4, Len(cs)))
    ELSE <<Head(cs)>> \o replaceApostrophes(Tail(cs))

\* (v || '').replace(/ ' /gi, '\''): only a string has a replace method
cleaned(v) ==
    LET x == Or(v, Str(<<>>))
    IN  IF x.t = "string" THEN Str(replaceApostrophes(x.s)) ELSE TypeError

\* the entry parseAssistantQuery stores for one argument
queryEntry(arg) ==
    LET value == IF Truthy(Get(arg, K_text_value))
                 THEN cleaned(Get(arg, K_text_value))
                 ELSE cleaned(Get(arg, K_raw_text))
        raw == cleaned(Get(arg, K_raw_text))
    IN  IF Threw(value) \/ Threw(raw)
        THEN TypeError
        ELSE Obj(<<K_value, K_location, K_raw_text>>,
                 <<value, Get(arg, K_location_value), raw>>)

RECURSIVE reduceQuery(_, _)
\* args.reduce(..., query) over the remaining arguments
reduceQuery(rest, query) ==
    IF rest = <<>> THEN query
    ELSE IF Head(rest).t \in {"undefined", "null"} THEN TypeError
    ELSE IF Threw(queryEntry(Head(rest))) THEN TypeError
    ELSE reduceQuery(Tail(rest),
                     Put(query, ToString(Get(Head(rest), K_name)), queryEntry(Head(rest))))

parseAssistantQuery(arguments) ==
    IF ~instanceofArray(arguments)
    THEN TypeError
    ELSE LET query == reduceQuery(arguments.items, EmptyObject)
         IN  IF Threw(query)
             THEN TypeError
             ELSE Put(query, K_trigger_query,
                      Or(Get(query, K_trigger_query),
                         Obj(<<K_value, K_raw_text>>, <<Str(<<>>), Str(<<>>)>>)))

\* parseInput writing the default over the intent the input came with
withIntent_Always(input, defaultIntentName) ==
    Put(parseObject(input), K_intent, defaultIntentName)

\* i.intent = i.intent || defaultIntentName
withIntent(input, defaultIntentName) ==
    LET i == parseObject(input)
    IN  Put(i, K_intent, Or(Get(i, K_intent), defaultIntentName))

mapParseObject(array) == Arr([k \in DOMAIN array.items |-> parseObject(array.items[k])])

parseInput(input, defaultIntentName) ==
    LET i == withIntent(input, defaultIntentName)
        sanitized == Obj(<<K_intent, K_raw_inputs, K_arguments>>,
                         <<Get(i, K_intent),
                           mapParseObject(parseArray(Get(i, K_raw_inputs))),
                           mapParseObject(parseArray(Get(i, K_arguments)))>>)
        query == parseAssistantQuery(Get(sanitized, K_arguments))
    IN  IF Threw(query) THEN TypeError ELSE Put(sanitized, K_query, query)

\* the caller's input value once parseInput has returned or raised
inputAfter(input, defaultIntentName) ==
    IF SameObject(input) THEN withIntent(input, defaultIntentName) ELSE input

parseInputs(inputs, defaultIntentName) ==
    LET items == parseArray(inputs).items
    IN  IF \E k \in DOMAIN items : Threw(parseInput(items[k], defaultIntentName))
        THEN TypeError
        ELSE Arr([k \in DOMAIN items |-> parseInput(items[k], defaultIntentName)])

\* the caller's inputs value once parseInputs has returned or raised: map visits the
\* inputs in order and stops at the first that raises
inputsAfter(inputs, defaultIntentName) ==
    IF ~instanceofArray(inputs)
    THEN inputs
    ELSE LET items == inputs.items
             raises(k) == Threw(parseInput(items[k], defaultIntentName))
         IN  [inputs EXCEPT !.items =
                [k \in DOMAIN items |->
                    IF \E j \in 1..(k - 1) : raises(j)
                    THEN items[k]
                    ELSE inputAfter(items[k], defaultIntentName)]]

---------------------------------------------------------------------------
(* Action (src/lib/action.js) *)

_intentPrefix ==
    <<"a", "s", "s", "i", "s", "t", "a", "n", "t", ".", "i", "n", "t", "e", "n", "t", ".", "a",
      "c", "t", "i", "o", "n", ".">>

_mainIntent == <<"M", "A", "I", "N">>

InvalidIntentHead ==
    <<"I", "n", "v", "a", "l", "i", "d", " ", "i", "n", "t", "e", "n", "t", " ", "\"">>

InvalidIntentMid ==
    <<"\"", ",", " ", "m", "u", "s", "t", " ", "s", "t", "a", "r", "t", " ", "w", "i", "t",
      "h", " ", "\"">>

IntentNotFoundHead ==
    <<"I", "n", "t", "e", "n", "t", " ", "n", "o", "t", " ", "f", "o", "u", "n", "d", ":", " ">>

K_user == <<"u", "s", "e", "r">>

K_device == <<"d", "e", "v", "i", "c", "e">>

K_conversation == <<"c", "o", "n", "v", "e", "r", "s", "a", "t", "i", "o", "n">>

K_inputs == <<"i", "n", "p", "u", "t", "s">>

defaultIntentName == Str(_intentPrefix \o _mainIntent)

\* one character of String.prototype.toUpperCase, on the ASCII letters
upperChar(c) ==
    CASE c = "a" -> "A" [] c = "b" -> "B" [] c = "c" -> "C" [] c = "d" -> "D"
      [] c = "e" -> "E" [] c = "f" -> "F" [] c = "g" -> "G" [] c = "h" -> "H"
      [] c = "i" -> "I" [] c = "j" -> "J" [] c = "k" -> "K" [] c = "l" -> "L"
      [] c = "m" -> "M" [] c = "n" -> "N" [] c = "o" -> "O" [] c = "p" -> "P"
      [] c = "q" -> "Q" [] c = "r" -> "R" [] c = "s" -> "S" [] c = "t" -> "T"
      [] c = "u" -> "U" [] c = "v" -> "V" [] c = "w" -> "W" [] c = "x" -> "X"
      [] c = "y" -> "Y" [] c = "z" -> "Z" [] OTHER -> c

toUpperCase(cs) == [i \in DOMAIN cs |-> upperChar(cs[i])]

\* cs.substr(0, length)
substr0(cs, length) == SubSeq(cs, 1, IF length < Len(cs) THEN length ELSE Len(cs))

\* a truthy shortName that is not a string has no toUpperCase method
formatIntentName(shortName) ==
    LET name == Or(shortName, Str(_mainIntent))
    IN  IF name.t = "string"
        THEN Str(_intentPrefix \o toUpperCase(name.s))
        ELSE TypeError

\* addIntent keeping an entry that is already there
setIntent_KeepFirst(intents, name, action, handler) ==
    [k \in DOMAIN intents \cup {name} |->
        IF k \in DOMAIN intents THEN intents[k]
        ELSE [action |-> action, handler |-> handler]]

\* this._intents[name] = {action, handler}
setIntent(intents, name, action, handler) ==
    [k \in DOMAIN intents \cup {name} |->
        IF k = name THEN [action |-> action, handler |-> handler] ELSE intents[k]]

\* what findIntent passes to its callback (err, intent), or that it raised
Lookup(threw, err, action, handler) ==
    [threw |-> threw, err |-> err, action |-> action, handler |-> handler]

\* findIntent without its test of the prefix
findIntent_NoPrefixTest(intents, intentName) ==
    IF intentName.t # "string"
    THEN Lookup(TRUE, Undefined, "", "")
    ELSE IF intentName.s \notin DOMAIN intents
    THEN Lookup(FALSE, Err(IntentNotFoundHead \o intentName.s), "", "")
    ELSE Lookup(FALSE, Null, intents[intentName.s].action, intents[intentName.s].handler)

\* intentName.substr exists only on a string
findIntent(intents, intentName) ==
    IF intentName.t # "string"
    THEN Lookup(TRUE, Undefined, "", "")
    ELSE IF substr0(intentName.s, Len(_intentPrefix)) # _intentPrefix
    THEN Lookup(FALSE,
                Err(InvalidIntentHead \o intentName.s \o InvalidIntentMid
                    \o _intentPrefix \o <<"\"">>),
                "", "")
    ELSE IF intentName.s \notin DOMAIN intents
    THEN Lookup(FALSE, Err(IntentNotFoundHead \o intentName.s), "", "")
    ELSE Lookup(FALSE, Null, intents[intentName.s].action, intents[intentName.s].handler)

\* runIntent taking the last input instead of the first
topInput_Last(b) ==
    LET inputs == parseInputs(Get(parseObject(b), K_inputs), defaultIntentName)
    IN  IF Threw(inputs) THEN TypeError
        ELSE IF Len(inputs.items) > 0 THEN inputs.items[Len(inputs.items)]
        ELSE parseInput(EmptyObject, defaultIntentName)

\* runIntent's topInput: inputs[0], or the parse of {} when there is none
topInput(b) ==
    LET inputs == parseInputs(Get(parseObject(b), K_inputs), defaultIntentName)
    IN  IF Threw(inputs) THEN TypeError
        ELSE IF Len(inputs.items) > 0 THEN inputs.items[1]
        ELSE parseInput(EmptyObject, defaultIntentName)

\* the caller's body once runIntent has parsed it: parseConversation and parseInput
\* write to the objects the body holds
bodyAfter(b) ==
    IF ~SameObject(b) THEN b
    ELSE LET c == IF SameObject(Get(b, K_conversation))
                  THEN Put(b, K_conversation, conversationAfter(Get(b, K_conversation)))
                  ELSE b
         IN  IF instanceofArray(Get(c, K_inputs))
             THEN Put(c, K_inputs, inputsAfter(Get(c, K_inputs), defaultIntentName))
             ELSE c

\* the result callback passing the short names on as they are
formatIntents_Unformatted(intents) ==
    LET list == Or(intents, Arr(<<>>))
    IN  IF ~instanceofArray(list) THEN TypeError ELSE list

\* intents = (intents || []).map(shortName => this.formatIntentName(shortName)):
\* only an array has map, and formatIntentName may raise
formatIntents(intents) ==
    LET list == Or(intents, Arr(<<>>))
    IN  IF ~instanceofArray(list) THEN TypeError
        ELSE IF \E k \in DOMAIN list.items : Threw(formatIntentName(list.items[k]))
        THEN TypeError
        ELSE Arr([k \in DOMAIN list.items |-> formatIntentName(list.items[k])])

\* the object the result callback hands to runIntent's callback
respond(err, message, prompts, intents, state) ==
    LET names == formatIntents(intents)
    IN  IF Threw(names) THEN Raised
        ELSE toObject(constructor(err, message, prompts, names), state)

\* the object runIntent hands to its callback when the lookup failed:
\* new ActionResponse(err).toObject()
respondLookupError(err) ==
    toObject(constructor(err, Undefined, Undefined, Undefined), Undefined)

headers == "Google-Assistant-API-Version: v1"

---------------------------------------------------------------------------
(* Bounds and the values the operations are tried on *)

\* bounds on the arrays handed to the constructor and to the result callback
MaxPrompts == 2

MaxIntents == 2

\* bound on the addIntent calls recorded in calls
MaxCalls == 2

\* bound on the times a handler calls its result callback in one request
MaxCallbacks == 2

SeqsUpTo(S, n) == UNION {[1..k -> S] : k \in 0..n}

TxtBoom == <<"b", "o", "o", "m">>

TxtOops == <<"o", "o", "p", "s">>

TxtHi == <<"H", "i", " ", "S", "t", "e", "v", "e", "n", "!">>

TxtSsml ==
    <<"<", "s", "p", "e", "a", "k", ">", "H", "i", "<", "/", "s", "p", "e", "a", "k", ">">>

TxtStill == <<"S", "t", "i", "l", "l", " ", "t", "h", "e", "r", "e", "?">>

TxtStep == <<"s", "t", "e", "p">>

FullMAIN ==
    <<"a", "s", "s", "i", "s", "t", "a", "n", "t", ".", "i", "n", "t", "e", "n", "t", ".", "a",
      "c", "t", "i", "o", "n", ".", "M", "A", "I", "N">>

FullTEXT ==
    <<"a", "s", "s", "i", "s", "t", "a", "n", "t", ".", "i", "n", "t", "e", "n", "t", ".", "a",
      "c", "t", "i", "o", "n", ".", "T", "E", "X", "T">>

LowerTEXT ==
    <<"a", "s", "s", "i", "s", "t", "a", "n", "t", ".", "i", "n", "t", "e", "n", "t", ".", "a",
      "c", "t", "i", "o", "n", ".", "t", "e", "x", "t">>

TxtMain == <<"m", "a", "i", "n">>

TxtMixedMain == <<"M", "a", "i", "n">>

TxtText == <<"t", "e", "x", "t">>

TxtMixedText == <<"T", "e", "x", "t">>

TxtTEXT == <<"T", "E", "X", "T">>

TxtOBrienRaw == <<"O", " ", "'", " ", "B", "r", "i", "e", "n">>

TxtUserId == <<"u", "s", "e", "r", "_", "i", "d">>

SsmlMessage == Obj(<<K_ssml>>, <<Str(TxtSsml)>>)

\* err: absent, null, an Error, an Error with an empty message, a string, an object
\* carrying a message property
ErrValues ==
    {Undefined, Null, Err(TxtBoom), Err(<<>>), Str(TxtOops),
     Obj(<<K_message>>, <<Str(TxtOops)>>)}

MessageValues == {Undefined, Str(TxtHi), Str(<<>>), SsmlMessage, EmptyObject, Num(5)}

PromptItems == {Str(TxtStill), SsmlMessage}

\* prompts: absent, null, arrays of up to MaxPrompts prompts, and truthy non-arrays
PromptsValues ==
    {Undefined, Null, Str(TxtStill), EmptyObject}
        \cup {Arr(p) : p \in SeqsUpTo(PromptItems, MaxPrompts)}

\* intents: absent, null, arrays of up to MaxIntents full names, and truthy non-arrays
IntentsValues ==
    {Undefined, Null, Str(FullMAIN), EmptyObject}
        \cup {Arr(p) : p \in SeqsUpTo({Str(FullMAIN), Str(FullTEXT)}, MaxIntents)}

\* the state handed to toObject: absent, null, objects, arrays, primitives
TokenValues ==
    {Undefined, Null, EmptyObject, Obj(<<TxtStep>>, <<Num(1)>>),
     Obj(<<TxtStep, K_message>>, <<Str(TxtHi), Arr(<<Num(1), Null>>)>>),
     Arr(<<>>), Arr(<<Num(1)>>), Num(5), Str(TxtStep)}

\* short names given to addIntent: absent, empty, and spellings of two names
ShortNames ==
    {Undefined, Str(<<>>), Str(TxtMain), Str(TxtMixedMain), Str(_mainIntent),
     Str(TxtText), Str(TxtTEXT)}

\* the (action, handler) pairs given to addIntent
Registrations == {[action |-> "a1", handler |-> "h1"], [action |-> "a2", handler |-> "h2"]}

\* names given to findIntent directly
LookupNames ==
    {Str(FullMAIN), Str(FullTEXT), Str(LowerTEXT), Str(_mainIntent), Str(<<>>), Num(5)}

NameArgument == Obj(<<K_name, K_raw_text>>, <<Str(K_name), Str(TxtOBrienRaw)>>)

TextArgument ==
    Obj(<<K_name, K_raw_text, K_text_value, K_location_value>>,
        <<Str(K_name), Str(TxtOBrienRaw), Str(TxtHi), Num(7)>>)

\* arguments whose text_value / raw_text is truthy and not a string
NumberTextArgument == Obj(<<K_name, K_text_value>>, <<Str(K_name), Num(5)>>)

ArrayRawArgument == Obj(<<K_name, K_raw_text>>, <<Str(K_name), Arr(<<Str(TxtHi)>>)>>)

InputOf(intent, arguments) == Obj(<<K_intent, K_arguments>>, <<intent, Arr(arguments)>>)

BodyOf(inputs) == Obj(<<K_inputs>>, <<Arr(inputs)>>)

\* inbound bodies: absent, null, without inputs, with well-formed and malformed inputs
Bodies ==
    {Undefined, Null, EmptyObject, BodyOf(<<>>),
     Obj(<<K_inputs>>, <<Str(TxtText)>>),
     BodyOf(<<Null>>),
     Obj(<<K_user, K_conversation, K_inputs>>,
         <<Obj(<<TxtUserId>>, <<Str(TxtStep)>>),
           Obj(<<K_conversation_type>>, <<Num(1)>>),
           Arr(<<InputOf(Str(FullTEXT), <<NameArgument>>)>>)>>),
     BodyOf(<<InputOf(Str(FullMAIN), <<>>), InputOf(Str(FullTEXT), <<TextArgument>>)>>),
     BodyOf(<<EmptyObject, InputOf(Str(FullTEXT), <<>>)>>),
     BodyOf(<<InputOf(Str(TxtTEXT), <<>>)>>),
     BodyOf(<<InputOf(Str(LowerTEXT), <<>>)>>),
     BodyOf(<<InputOf(Num(5), <<>>)>>),
     BodyOf(<<InputOf(Str(FullTEXT), <<NumberTextArgument>>)>>),
     BodyOf(<<InputOf(Str(TxtTEXT), <<ArrayRawArgument>>)>>),
     BodyOf(<<InputOf(Str(FullMAIN), <<>>), InputOf(Str(FullTEXT), <<NumberTextArgument>>)>>)}

\* what a handler passes to its result callback
CallbackErrs == {Null, Err(TxtBoom)}

CallbackMessages == {Str(TxtHi), SsmlMessage}

CallbackPrompts ==
    {Undefined, Str(TxtStill)} \cup {Arr(p) : p \in SeqsUpTo({Str(TxtStill)}, MaxPrompts)}

CallbackIntents ==
    {Undefined, Str(TxtMain), Arr(<<Num(5)>>)}
        \cup {Arr(p) : p \in SeqsUpTo({Str(TxtMain), Str(TxtMixedText)}, MaxIntents)}

CallbackStates == {Undefined, Null, Obj(<<TxtStep>>, <<Num(1)>>), Arr(<<Num(1)>>), Num(5)}

\* every err, prompts and intents together, and every err, message and state together
CallbackArgs ==
    [err : CallbackErrs, message : {Str(TxtHi)}, prompts : CallbackPrompts,
     intents : CallbackIntents, state : {Undefined}]
    \cup
    [err : CallbackErrs, message : CallbackMessages,
     prompts : {Undefined, Arr(<<Str(TxtStill)>>)},
     intents : {Undefined, Arr(<<Str(TxtMain)>>)}, state : CallbackStates]

\* values handed to the parser's methods
ParserValues ==
    Bodies \cup
    {Num(0), Num(5), Str(<<>>), Str(TxtText), Arr(<<>>),
     Obj(<<K_conversation_type>>, <<Num(1)>>),
     Obj(<<K_conversation_type>>, <<Num(4)>>),
     Obj(<<K_conversation_type>>, <<Num(7)>>),
     Obj(<<K_conversation_type, K_type>>, <<Str(<<"2">>), Str(TxtText)>>),
     InputOf(Str(FullTEXT), <<NameArgument>>),
     InputOf(Undefined, <<TextArgument>>),
     InputOf(Str(FullTEXT), <<NumberTextArgument>>),
     InputOf(Str(FullTEXT), <<ArrayRawArgument>>),
     InputOf(Num(5), <<Null, Num(5)>>),
     Obj(<<K_raw_inputs, K_arguments>>, <<Arr(<<Num(5), EmptyObject>>), Str(TxtText)>>),
     Arr(<<NameArgument>>), Arr(<<NameArgument, TextArgument>>),
     Arr(<<NumberTextArgument>>), Arr(<<ArrayRawArgument>>), Arr(<<Null>>),
     Arr(<<Num(5)>>), Arr(<<EmptyObject, Obj(<<K_name>>, <<Str(K_trigger_query)>>)>>),
     Arr(<<InputOf(Str(FullMAIN), <<>>), InputOf(Str(FullTEXT), <<NumberTextArgument>>),
           InputOf(Undefined, <<>>)>>)}

ParserMethods ==
    {"parseObject", "parseArray", "parseConversation", "parseAssistantQuery",
     "parseInput", "parseInputs"}

---------------------------------------------------------------------------
(* State *)

NoArgs ==
    [err |-> Undefined, message |-> Undefined, prompts |-> Undefined,
     intents |-> Undefined, conversationToken |-> Undefined]

NoThis == constructor(Undefined, Undefined, Undefined, Undefined)

NoResult == Output(FALSE, <<>>, FALSE, <<>>, <<>>)

NoParsed ==
    [method |-> "none", argument |-> Undefined, after |-> Undefined, value |-> Undefined]

NoFound ==
    [called |-> FALSE, intentName |-> Undefined, err |-> Undefined,
     threw |-> FALSE, action |-> "", handler |-> ""]

NoGiven ==
    [err |-> Undefined, message |-> Undefined, prompts |-> Undefined,
     intents |-> Undefined, state |-> Undefined]

NoLast == [from |-> "none", given |-> NoGiven, err |-> Undefined, result |-> NoResult,
           headers |-> ""]

NoBody == [given |-> Undefined, after |-> Undefined]

Found(intentName, look) ==
    [called |-> TRUE, intentName |-> intentName, err |-> look.err,
     threw |-> look.threw, action |-> look.action, handler |-> look.handler]

\* the Action instance as its constructor leaves it, with no request under way
NewAction ==
    /\ _intents = <<>>
    /\ body = NoBody
    /\ pc = "idle"
    /\ invoked = <<>>
    /\ fired = 0
    /\ resultCalls = 0
    /\ last = NoLast
    /\ thrown = FALSE
    /\ calls = <<>>
    /\ found = NoFound

NoResponseRun ==
    /\ args = NoArgs
    /\ this = NoThis
    /\ result = NoResult
    /\ rpc = "new"

actionVars ==
    <<_intents, body, pc, invoked, fired, last, thrown, calls, found, resultCalls>>

responseVars == <<args, this, result, rpc>>

---------------------------------------------------------------------------
(* Requests: addIntent, runIntent and the handler's result callback *)

Init == NewAction /\ NoResponseRun /\ parsed = NoParsed

\* addIntent(shortName, action, handler), between requests
AddIntent(shortName, action, handler) ==
    /\ pc = "idle"
    /\ ~Threw(formatIntentName(shortName))
    /\ _intents' = setIntent(_intents, formatIntentName(shortName).s, action, handler)
    /\ UNCHANGED <<body, pc, invoked, fired, last, thrown, found, resultCalls>>
    /\ UNCHANGED <<responseVars, parsed>>

Register ==
    \E shortName \in ShortNames, r \in Registrations :
        /\ AddIntent(shortName, r.action, r.handler)
        /\ UNCHANGED calls

\* runIntent(b, callback) up to the point where it returns: it raised, or it called
\* back with the lookup's error, or it invoked the handler
RunIntent(b) ==
    /\ pc = "idle"
    /\ body' = [given |-> b, after |-> bodyAfter(b)]
    /\ \E top \in {topInput(b)} :
         IF Threw(top)
         THEN /\ thrown' = TRUE
              /\ pc' = "end"
              /\ UNCHANGED <<invoked, fired, last, found>>
         ELSE \E look \in {findIntent(_intents, Get(top, K_intent))} :
              /\ found' = Found(Get(top, K_intent), look)
              /\ IF look.threw
                 THEN /\ thrown' = TRUE
                      /\ pc' = "end"
                      /\ UNCHANGED <<invoked, fired, last>>
                 ELSE IF Truthy(look.err)
                 THEN /\ fired' = fired + 1
                      /\ last' = [from |-> "lookup", given |-> NoGiven, err |-> Null,
                                  result |-> respondLookupError(look.err),
                                  headers |-> headers]
                      /\ pc' = "end"
                      /\ UNCHANGED <<invoked, thrown>>
                 ELSE /\ invoked' = Append(invoked,
                              [handler |-> look.handler,
                               user |-> parseUser(Get(parseObject(b), K_user)),
                               device |-> parseDevice(Get(parseObject(b), K_device)),
                               conversation |->
                                   parseConversation(Get(parseObject(b), K_conversation)),
                               query |-> Get(top, K_query)])
                      /\ pc' = "handler"
                      /\ UNCHANGED <<fired, last, thrown>>
    /\ UNCHANGED <<_intents, calls, resultCalls, responseVars, parsed>>

Request == \E b \in Bodies : RunIntent(b)

\* the handler calls the result callback runIntent gave it; a handler that calls it
\* again repeats the call it made
ResultCallback(given) ==
    /\ pc = "handler"
    /\ ~thrown
    /\ fired < MaxCallbacks
    /\ fired > 0 => given = last.given
    /\ resultCalls' = resultCalls + 1
    /\ LET out == respond(given.err, given.message, given.prompts, given.intents,
                          given.state)
       IN  IF out.threw
           THEN /\ thrown' = TRUE
                /\ UNCHANGED <<fired, last>>
           ELSE /\ fired' = fired + 1
                /\ last' = [from |-> "handler", given |-> given, err |-> Null,
                            result |-> out, headers |-> headers]
                /\ UNCHANGED thrown
    /\ UNCHANGED <<_intents, body, pc, invoked, calls, found, responseVars, parsed>>

Callback == \E given \in CallbackArgs : ResultCallback(given)

\* the request is over for its caller; the registry stays
Finish ==
    /\ pc # "idle"
    /\ pc' = "idle"
    /\ body' = NoBody
    /\ invoked' = <<>>
    /\ fired' = 0
    /\ resultCalls' = 0
    /\ last' = NoLast
    /\ thrown' = FALSE
    /\ found' = NoFound
    /\ UNCHANGED <<_intents, calls, responseVars, parsed>>

Next == Register \/ Request \/ Callback \/ Finish

Spec == Init /\ [][Next]_vars

---------------------------------------------------------------------------
(* The registry alone: addIntent calls, recorded, and findIntent calls *)

InitRegistry == Init

RegisterLogged ==
    \E shortName \in ShortNames, r \in Registrations :
        /\ Len(calls) < MaxCalls
        /\ AddIntent(shortName, r.action, r.handler)
        /\ calls' = Append(calls, [shortName |-> shortName, action |-> r.action,
                                   handler |-> r.handler])

FindIntent(intentName) ==
    /\ pc = "idle"
    /\ found' = Found(intentName, findIntent(_intents, intentName))
    /\ UNCHANGED <<_intents, body, pc, invoked, fired, last, thrown, calls, resultCalls>>
    /\ UNCHANGED <<responseVars, parsed>>

Find == \E intentName \in LookupNames : FindIntent(intentName)

NextRegistry == RegisterLogged \/ Find

SpecRegistry == InitRegistry /\ [][NextRegistry]_vars

---------------------------------------------------------------------------
(* A run of ActionResponse alone: construct with arbitrary arguments, then toObject *)

InitResponse ==
    /\ NewAction
    /\ args \in [err : ErrValues, message : MessageValues, prompts : PromptsValues,
                 intents : IntentsValues, conversationToken : TokenValues]
    /\ this = NoThis
    /\ result = NoResult
    /\ rpc = "new"
    /\ parsed = NoParsed

Construct ==
    /\ rpc = "new"
    /\ this' = constructor(args.err, args.message, args.prompts, args.intents)
    /\ rpc' = "constructed"
    /\ UNCHANGED <<actionVars, args, result, parsed>>

ToObject ==
    /\ rpc = "constructed"
    /\ result' = toObject(this, args.conversationToken)
    /\ rpc' = "done"
    /\ UNCHANGED <<actionVars, args, this, parsed>>

NextResponse == Construct \/ ToObject

SpecResponse == InitResponse /\ [][NextResponse]_vars

---------------------------------------------------------------------------
(* The parser alone: each method applied to arbitrary values *)

\* what the method returns, or TypeError when it raises
parse(method, value) ==
    CASE method = "parseObject" -> parseObject(value)
      [] method = "parseArray" -> parseArray(value)
      [] method = "parseConversation" -> parseConversation(value)
      [] method = "parseAssistantQuery" -> parseAssistantQuery(value)
      [] method = "parseInput" -> parseInput(value, defaultIntentName)
      [] OTHER -> parseInputs(value, defaultIntentName)

\* the caller's value once the method has returned or raised
parseAfter(method, value) ==
    CASE method = "parseConversation" -> conversationAfter(value)
      [] method = "parseInput" -> inputAfter(value, defaultIntentName)
      [] method = "parseInputs" -> inputsAfter(value, defaultIntentName)
      [] OTHER -> value

Parse(method, value) ==
    /\ parsed' = [method |-> method, argument |-> value,
                  after |-> parseAfter(method, value), value |-> parse(method, value)]
    /\ UNCHANGED <<actionVars, responseVars>>

NextParser == \E method \in ParserMethods, value \in ParserValues : Parse(method, value)

SpecParser == Init /\ [][NextParser]_vars

---------------------------------------------------------------------------
(* Claims about ActionResponse, checked under SpecResponse *)

NoError == ~Truthy(args.err)

NonEmptyArray(v) == instanceofArray(v) /\ Len(v.items) > 0

\* the Error and Final shape: expect_user_response false, a final_response with the
\* given speech text, no expected_inputs
FinalShape(out, text) ==
    /\ ~out.threw
    /\ out.expect_user_response = FALSE
    /\ out.final_response = <<[speech_response |-> Speech("text_to_speech", Str(text))]>>
    /\ Len(out.expected_inputs) = 0

\* C1: a response constructed without an error and with prompts [] or null is never
\* in Continue state, whatever the intents: toObject returns expect_user_response
\* false with a final_response and no expected_inputs.
C1_EmptyOrNullPromptsNeverContinue ==
    (rpc = "done" /\ NoError /\ args.prompts \in {Arr(<<>>), Null}) =>
        /\ ~result.threw
        /\ result.expect_user_response = FALSE
        /\ Len(result.final_response) = 1
        /\ Len(result.expected_inputs) = 0

\* C2: without an error, a non-empty prompts array with an empty or absent intents
\* list always gives the Error output with the fixed message, and no output has
\* expect_user_response true together with an empty possible_intents list.
C2_ContinueNeedsIntents ==
    rpc = "done" =>
        /\ (NoError /\ NonEmptyArray(args.prompts)
              /\ args.intents \in {Undefined, Null, Arr(<<>>)})
            => FinalShape(result, ErrorSpeechPrefix \o NoIntentsMessage)
        /\ (~result.threw /\ result.expect_user_response)
            => /\ Len(result.expected_inputs) = 1
               /\ Len(result.expected_inputs[1].possible_intents) > 0

C2_Witness ==
    /\ rpc = "done"
    /\ NoError
    /\ args.prompts = Arr(<<Str(TxtStill)>>)
    /\ args.intents = Arr(<<>>)
    /\ args.message = Str(TxtHi)
    /\ FinalShape(result, ErrorSpeechPrefix \o NoIntentsMessage)

\* the text `${err.message}` of a truthy err
OwnMessage(err) ==
    CASE err.t = "error" -> err.s
      [] err.t = "object" /\ IndexOf(err.keys, K_message) # 0 ->
            err.vals[IndexOf(err.keys, K_message)].s
      [] OTHER -> TxtUndefined

\* C8: with a truthy error the output is the Error output whatever message, prompts
\* and intents accompany it: expect_user_response false, no expected_inputs, and the
\* speech "There was an error with your request, " followed by the error's message.
C8_ErrorWins ==
    (rpc = "done" /\ Truthy(args.err)) =>
        FinalShape(result, ErrorSpeechPrefix \o OwnMessage(args.err))

C8_Witness ==
    /\ rpc = "done"
    /\ args.err = Err(TxtBoom)
    /\ args.message = Str(TxtHi)
    /\ NonEmptyArray(args.prompts)
    /\ NonEmptyArray(args.intents)
    /\ FinalShape(result, ErrorSpeechPrefix \o TxtBoom)

---------------------------------------------------------------------------
(* Claims about the parser, checked under SpecParser *)

\* C4: the request normalizer never raises: each of its methods returns a well-typed
\* structure for an arbitrary value (an array from parseArray and parseInputs, an
\* object from the others).
C4_NormalizerNeverRaises ==
    parsed.method # "none" =>
        /\ ~Threw(parsed.value)
        /\ IF parsed.method \in {"parseArray", "parseInputs"}
           THEN instanceofArray(parsed.value)
           ELSE SameObject(parsed.value)

---------------------------------------------------------------------------
(* Claims about the registry, checked under SpecRegistry *)

lowerChar(c) ==
    CASE c = "A" -> "a" [] c = "B" -> "b" [] c = "C" -> "c" [] c = "D" -> "d"
      [] c = "E" -> "e" [] c = "F" -> "f" [] c = "G" -> "g" [] c = "H" -> "h"
      [] c = "I" -> "i" [] c = "J" -> "j" [] c = "K" -> "k" [] c = "L" -> "l"
      [] c = "M" -> "m" [] c = "N" -> "n" [] c = "O" -> "o" [] c = "P" -> "p"
      [] c = "Q" -> "q" [] c = "R" -> "r" [] c = "S" -> "s" [] c = "T" -> "t"
      [] c = "U" -> "u" [] c = "V" -> "v" [] c = "W" -> "w" [] c = "X" -> "x"
      [] c = "Y" -> "y" [] c = "Z" -> "z" [] OTHER -> c

\* a short name with its letter case ignored; an absent (undefined or empty) short
\* name counts as MAIN
FoldedName(shortName) ==
    IF shortName.t = "string" /\ shortName.s # <<>>
    THEN [i \in DOMAIN shortName.s |-> lowerChar(shortName.s[i])]
    ELSE TxtMain

\* the last addIntent call whose short name equals that of call i, ignoring case
LastCallLike(i) ==
    CHOOSE j \in DOMAIN calls :
        /\ FoldedName(calls[j].shortName) = FoldedName(calls[i].shortName)
        /\ \A k \in DOMAIN calls :
              FoldedName(calls[k].shortName) = FoldedName(calls[i].shortName) => k <= j

\* C5: after any sequence of addIntent calls, findIntent(formatIntentName(s)) succeeds
\* for every registered short name s and returns the action and handler of the most
\* recent addIntent whose short name equals s ignoring letter case.
C5_LastRegistrationWins ==
    \A i \in DOMAIN calls :
        LET look == findIntent(_intents, formatIntentName(calls[i].shortName))
        IN  /\ ~look.threw
            /\ look.err = Null
            /\ look.action = calls[LastCallLike(i)].action
            /\ look.handler = calls[LastCallLike(i)].handler

C5_Witness ==
    /\ Len(calls) = 2
    /\ calls[1] = [shortName |-> Str(TxtText), action |-> "a1", handler |-> "h1"]
    /\ calls[2] = [shortName |-> Str(TxtTEXT), action |-> "a2", handler |-> "h2"]
    /\ found.called
    /\ found.intentName = Str(FullTEXT)
    /\ found.err = Null
    /\ found.handler = "h2"

---------------------------------------------------------------------------
(* Claims about runIntent, checked under Spec *)

\* the first element of the body's inputs, when the body has one
HasFirstInput(b) ==
    /\ SameObject(b)
    /\ instanceofArray(Get(b, K_inputs))
    /\ Len(Get(b, K_inputs).items) > 0

FirstInput(b) == Get(b, K_inputs).items[1]

\* the intent of the dispatched input: inputs[0].intent, and the default intent when
\* inputs is absent or empty or inputs[0] has no intent
DispatchedIntent(b) ==
    IF HasFirstInput(b) /\ SameObject(FirstInput(b))
          /\ Truthy(Get(FirstInput(b), K_intent))
    THEN Get(FirstInput(b), K_intent)
    ELSE Str(FullMAIN)

HasPrefix(cs) ==
    /\ Len(cs) >= Len(_intentPrefix)
    /\ \A i \in DOMAIN _intentPrefix : cs[i] = _intentPrefix[i]

\* the error message for a name that cannot be resolved
UnresolvedMessage(cs) ==
    IF HasPrefix(cs)
    THEN IntentNotFoundHead \o cs
    ELSE InvalidIntentHead \o cs \o InvalidIntentMid \o _intentPrefix \o <<"\"">>

\* C3: nothing is thrown across the dispatch boundary: runIntent and the result
\* callback never raise, whatever the body and whatever the handler passes, and every
\* outcome reaches runIntent's callback as a response object with a null error.
C3_NothingThrown ==
    /\ ~thrown
    /\ fired > 0 => (last.err = Null /\ ~last.result.threw)

C6_WitnessNotFound ==
    /\ pc = "end"
    /\ body.given = BodyOf(<<InputOf(Str(LowerTEXT), <<>>)>>)
    /\ FullTEXT \in DOMAIN _intents
    /\ found.called
    /\ invoked = <<>>
    /\ FinalShape(last.result, ErrorSpeechPrefix \o IntentNotFoundHead \o LowerTEXT)

\* C7: runIntent dispatches only the first input: the one handler it may invoke is
\* the one registered under inputs[0].intent (the default intent when there is none),
\* called with the query map of inputs[0].
C7_OnlyFirstInputDispatched ==
    pc # "idle" =>
        /\ Len(invoked) <= 1
        /\ Len(invoked) = 1 =>
            LET name == DispatchedIntent(body.given)
                first == IF HasFirstInput(body.given) THEN FirstInput(body.given)
                         ELSE EmptyObject
            IN  /\ name.t = "string"
                /\ name.s \in DOMAIN _intents
                /\ invoked[1].handler = _intents[name.s].handler
                /\ invoked[1].query = parseAssistantQuery(
                        mapParseObject(parseArray(Get(parseObject(first), K_arguments))))

C7_Witness ==
    /\ pc = "handler"
    /\ body.given = BodyOf(<<InputOf(Str(FullMAIN), <<>>),
                            InputOf(Str(FullTEXT), <<TextArgument>>)>>)
    /\ FullMAIN \in DOMAIN _intents
    /\ FullTEXT \in DOMAIN _intents
    /\ _intents[FullMAIN].handler = "h1"
    /\ _intents[FullTEXT].handler = "h2"
    /\ Len(invoked) = 1
    /\ invoked[1].handler = "h1"
    /\ invoked[1].query.keys = <<K_trigger_query>>

C7_WitnessDefault ==
    /\ pc = "handler"
    /\ body.given = BodyOf(<<EmptyObject, InputOf(Str(FullTEXT), <<>>)>>)
    /\ FullTEXT \in DOMAIN _intents
    /\ _intents[FullTEXT].handler = "h2"
    /\ Len(invoked) = 1
    /\ invoked[1].handler = "h1"

TokenStepOne == <<"{", "\"", "s", "t", "e", "p", "\"", ":", "1", "}">>

TokenArrayOne == <<"[", "1", "]">>

EmptyToken == <<"{", "}">>

\* C9, as claimed: every output carries the JSON text of the state when the state is
\* an object, and "{}" when the state is absent, null, a primitive or an array; the
\* output for a failed lookup carries "{}".
C9_TokenAsClaimed ==
    fired > 0 =>
        last.result.conversation_token =
            IF last.from = "handler" /\ last.given.state.t = "object"
            THEN JSONstringify(last.given.state)
            ELSE EmptyToken

\* C9, amended: every output carries the JSON text of the state when the state is an
\* object or an array (typeof state is 'object' and the state is not null), and "{}"
\* when the state is absent, null or a primitive; the output for a failed lookup
\* carries "{}".
C9_TokenOfObjectOrArray ==
    fired > 0 =>
        last.result.conversation_token =
            IF last.from = "handler" /\ last.given.state.t \in {"object", "array"}
            THEN JSONstringify(last.given.state)
            ELSE EmptyToken

C9_Witness ==
    /\ fired > 0
    /\ last.from = "handler"
    /\ last.given.state = Obj(<<TxtStep>>, <<Num(1)>>)
    /\ last.result.expect_user_response
    /\ last.result.conversation_token = TokenStepOne

C9_WitnessArray ==
    /\ fired > 0
    /\ last.given.state = Arr(<<Num(1)>>)
    /\ last.result.conversation_token = TokenArrayOne

\* C10: a callback with no error, a non-empty prompts array and a non-empty list of
\* short intent names gives a Continue response: expect_user_response true and one
\* expected_inputs entry, whose initial_prompts is the speech of message, whose
\* no_input_prompts are the speeches of the prompts in order, and whose
\* possible_intents are {intent: formatIntentName(shortName)} in order.
C10_ContinueResponse ==
    (fired > 0 /\ last.from = "handler" /\ ~Truthy(last.given.err)
        /\ NonEmptyArray(last.given.prompts) /\ NonEmptyArray(last.given.intents)
        /\ \A i \in DOMAIN last.given.intents.items :
              last.given.intents.items[i].t = "string")
    => LET out == last.result
           given == last.given
       IN  /\ ~out.threw
           /\ out.expect_user_response = TRUE
           /\ out.final_response = <<>>
           /\ Len(out.expected_inputs) = 1
           /\ out.expected_inputs[1].input_prompt.initial_prompts
                = <<formatSpeechResponse(given.message)>>
           /\ Len(out.expected_inputs[1].input_prompt.no_input_prompts)
                = Len(given.prompts.items)
           /\ \A i \in DOMAIN given.prompts.items :
                 out.expected_inputs[1].input_prompt.no_input_prompts[i]
                    = formatSpeechResponse(given.prompts.items[i])
           /\ Len(out.expected_inputs[1].possible_intents) = Len(given.intents.items)
           /\ \A i \in DOMAIN given.intents.items :
                 out.expected_inputs[1].possible_intents[i]
                    = [intent |-> Str(_intentPrefix
                                      \o toUpperCase(given.intents.items[i].s))]

C10_Witness ==
    /\ fired > 0
    /\ last.from = "handler"
    /\ last.given.err = Null
    /\ last.given.message = Str(TxtHi)
    /\ last.given.prompts = Arr(<<Str(TxtStill), Str(TxtStill)>>)
    /\ last.given.intents = Arr(<<Str(TxtMixedText), Str(TxtMain)>>)
    /\ last.result.expect_user_response
    /\ last.result.expected_inputs[1].possible_intents
         = <<[intent |-> Str(FullTEXT)], [intent |-> Str(FullMAIN)]>>
    /\ last.result.expected_inputs[1].input_prompt.initial_prompts
         = <<Speech("text_to_speech", Str(TxtHi))>>


---------------------------------------------------------------------------
(* Claims about what a request leaves behind, checked under Spec *)

\* the object v without its property key
Without(v, key) ==
    LET i == IndexOf(v.keys, key)
    IN  IF i = 0 THEN v
        ELSE [v EXCEPT !.keys = SubSeq(v.keys, 1, i - 1) \o SubSeq(v.keys, i + 1, Len(v.keys)),
                       !.vals = SubSeq(v.vals, 1, i - 1) \o SubSeq(v.vals, i + 1, Len(v.vals))]

\* given and after are the same value but for the property key
SameBut(given, after, key) == Without(after, key) = Without(given, key)

\* a conversation the request was given and what the caller holds afterwards: a
\* conversation object has its type set to one of the conversation type names
\* and is otherwise as it was
ConversationWritten(given, after) ==
    IF ~SameObject(given) THEN after = given
    ELSE /\ SameBut(given, after, K_type)
         /\ \E k \in DOMAIN conversationTypes :
               Get(after, K_type) = Str(conversationTypes[k])

\* an input the request was given and what the caller holds afterwards: only intent
\* may differ, a truthy intent is kept, and a written intent is the default intent
InputWritten(given, after) ==
    IF ~SameObject(given) THEN after = given
    ELSE /\ SameBut(given, after, K_intent)
         /\ Truthy(Get(given, K_intent)) => after = given
         /\ after # given => Get(after, K_intent) = defaultIntentName

InputsWritten(given, after) ==
    IF ~instanceofArray(given) THEN after = given
    ELSE /\ after.t = "array"
         /\ after.keys = given.keys
         /\ after.vals = given.vals
         /\ Len(after.items) = Len(given.items)
         /\ \A k \in DOMAIN given.items : InputWritten(given.items[k], after.items[k])

\* C11 as stated: the request normalizer has no side effects, so the inbound body is
\* the same after runIntent as before it: no field of the caller's conversation
\* object or input objects is added or overwritten.
C11_BodyUnchanged == body.after = body.given

\* C11: runIntent's normalizer writes to the caller's body in two places and nowhere
\* else: parseConversation sets type on the body's conversation object, and
\* parseInput sets intent to the default intent name on an input object that has no
\* truthy intent; every other field, and every truthy intent, is as it was.
C11_OnlyTypeAndIntentWritten ==
    pc # "idle" =>
        IF ~SameObject(body.given) THEN body.after = body.given
        ELSE /\ body.after.t = body.given.t
             /\ body.after.keys = body.given.keys
             /\ body.after.items = body.given.items
             /\ \A i \in DOMAIN body.given.keys :
                   body.given.keys[i] \notin {K_conversation, K_inputs}
                      => body.after.vals[i] = body.given.vals[i]
             /\ ConversationWritten(Get(body.given, K_conversation),
                                    Get(body.after, K_conversation))
             /\ InputsWritten(Get(body.given, K_inputs), Get(body.after, K_inputs))

\* a request whose conversation object came without type and now has it
C11_Witness ==
    /\ pc # "idle"
    /\ SameObject(body.given)
    /\ Get(body.given, K_conversation) = Obj(<<K_conversation_type>>, <<Num(1)>>)
    /\ Get(body.after, K_conversation)
         = Obj(<<K_conversation_type, K_type>>, <<Num(1), Str(TYPE_NEW)>>)
    /\ Get(body.after, K_inputs) = Get(body.given, K_inputs)

\* a request whose first input came without intent and now has the default intent,
\* while the second input keeps the intent it came with
C11_WitnessIntent ==
    /\ pc # "idle"
    /\ HasFirstInput(body.given)
    /\ FirstInput(body.given) = EmptyObject
    /\ FirstInput(body.after) = Obj(<<K_intent>>, <<defaultIntentName>>)
    /\ Len(Get(body.given, K_inputs).items) = 2
    /\ Get(body.after, K_inputs).items[2] = Get(body.given, K_inputs).items[2]
    /\ Truthy(Get(Get(body.given, K_inputs).items[2], K_intent))

\* C12 as stated: within one runIntent call the caller's callback fires once per call
\* the handler makes to its result callback and never otherwise: as many times as the
\* handler has called back (once, again for each duplicate, never when it has not
\* called back), and exactly once, without any handler, when the lookup fails.
C12_CallbackFiresPerCall ==
    /\ pc = "idle" => fired = 0
    /\ pc = "handler" => fired = resultCalls
    /\ pc = "end" =>
          /\ resultCalls = 0
          /\ invoked = <<>>
          /\ (found.called /\ Truthy(found.err)) => fired = 1
          /\ ~(found.called /\ Truthy(found.err)) => fired = 0

\* the caller's callback fires once for each call of the result callback that
\* returns; a call that raises does not fire it
C12_FiresPerReturnedCall ==
    pc = "handler" => fired = resultCalls - (IF thrown THEN 1 ELSE 0)

\* the handler called back twice with the same arguments and the callback fired twice
C12_WitnessDuplicate ==
    /\ pc = "handler"
    /\ resultCalls = 2
    /\ fired = 2
    /\ ~thrown

\* the handler called its result callback and the caller's callback did not fire
C12_WitnessRaised ==
    /\ pc = "handler"
    /\ resultCalls = 1
    /\ fired = 0
    /\ thrown
=============================================================================
